---- MODULE Spec2Model ----
(***************************************************************************)
(* Kanban board front-end (frontend/src/App.tsx): the local task store     *)
(* localTasks, the ['tasks'] query of the query client, the three          *)
(* mutations (add / update / delete) and the persistence service they      *)
(* talk to.  One action per handler, callback or network step.             *)
(***************************************************************************)
EXTENDS Integers, Sequences, FiniteSets, TLC

VARIABLES
    localTasks,   \* App.tsx:19  useState<Task[]>([])
    hasData,      \* the ['tasks'] query holds data (data !== undefined)
    queryData,    \* data of the ['tasks'] query, meaningful when hasData
    queryError,   \* `error` of the ['tasks'] query (App.tsx:23)
    fetch,        \* the GET /gettasks round trip of the query
    mutations,    \* mutation requests issued and not yet settled
    server,       \* task list held by the persistence service
    nextId,       \* next identifier uuidv4() hands out
    nOps,         \* number of user actions handled so far
    log,          \* history: the accepted user actions, in issue order
    lastEvent     \* history: the handler or callback that ran last

vars == <<localTasks, hasData, queryData, queryError, fetch, mutations,
          server, nextId, nOps, log, lastEvent>>

----------------------------------------------------------------------------
(* Bounds *)

MaxOps == 2       \* user actions (handler calls) in one behaviour

MaxNewTasks == 1  \* identifiers uuidv4() can hand out in one behaviour

----------------------------------------------------------------------------
(* Data *)

COLUMNS == <<"TODO", "IN_PROGRESS", "DONE">>

ColumnIds == {COLUMNS[i] : i \in 1..Len(COLUMNS)}

\* variant in which the task cards are registered as drop targets too
DropTargets_WithCards == ColumnIds \cup {"null", "card"}

\* what `over` of a drag-end event can be: null, or the id of a droppable;
\* the droppables are the three columns (Column.tsx:14)
DropTargets == ColumnIds \cup {"null"}

\* Strings are sequences of characters; " " is the whitespace character.
Strings == {<<>>, <<" ">>, <<" ", "a">>}

Task(id, title, description, status) ==
    [id |-> id, title |-> title, description |-> description, status |-> status]

T1 == Task(1, <<"a">>, <<"x">>, "TODO")

\* Task lists the persistence service may hold when the page is opened.
InitialServers == {<<>>, <<T1>>}

\* uuidv4() never returns an id the service already holds
FirstNewId == 1 + Cardinality(UNION {{t[i].id : i \in 1..Len(t)} : t \in InitialServers})

AllIds == 1..(FirstNewId + MaxNewTasks - 1)

\* what lastEvent records: the callback and, for a user action, its input
Event(op, id, title, description, column) ==
    [op |-> op, id |-> id, title |-> title, description |-> description,
     column |-> column]

NetEvent(op) == Event(op, 0, <<>>, <<>>, "-")

NoEvent == NetEvent("mount")

----------------------------------------------------------------------------
(* Pure helpers *)

RECURSIVE TrimStart(_)
TrimStart(s) ==
    IF s = <<>> THEN s
    ELSE IF Head(s) = " " THEN TrimStart(Tail(s)) ELSE s

RECURSIVE TrimEnd(_)
TrimEnd(s) ==
    IF s = <<>> THEN s
    ELSE IF s[Len(s)] = " " THEN TrimEnd(SubSeq(s, 1, Len(s) - 1)) ELSE s

\* String.prototype.trim
Trim(s) == TrimEnd(TrimStart(s))

\* !s.trim()  : the trimmed string is the empty string
Blank(s) == Trim(s) = <<>>

Ids(tasks) == {tasks[i].id : i \in 1..Len(tasks)}

\* Array.prototype.find by id: the first record with that id
Find(tasks, id) ==
    LET idx == {i \in 1..Len(tasks) : tasks[i].id = id}
    IN  tasks[CHOOSE i \in idx : \A j \in idx : i <= j]

\* variant of the map that drops the id test
MapReplace_All(tasks, id, updatedTask) == [i \in 1..Len(tasks) |-> updatedTask]

\* prevTasks.map((t) => (t.id === taskId ? updatedTask : t))
MapReplace(tasks, id, updatedTask) ==
    [i \in 1..Len(tasks) |-> IF tasks[i].id = id THEN updatedTask ELSE tasks[i]]

\* prevTasks.filter((t) => t.id !== task.id)
FilterOut(tasks, id) ==
    LET keep(t) == t.id # id IN SelectSeq(tasks, keep)

\* the status a task list holds for an id ("-" when the id is absent)
StatusOf(tasks, id) == IF id \in Ids(tasks) THEN Find(tasks, id).status ELSE "-"

----------------------------------------------------------------------------
(* The ['tasks'] query and what App renders from it *)

\* const { data: fetchedTasks = [] } = useQuery(...)
FetchedTasks == IF hasData THEN queryData ELSE <<>>

\* isLoading: no data yet and no error
IsLoading == ~hasData /\ ~queryError

\* variant of the render that lacks the error guard
BoardShown_IgnoreError == ~IsLoading

\* App.tsx:157-160: the board is rendered only past both early returns
BoardShown == ~IsLoading /\ ~queryError

\* App.tsx:158: the only error message the component renders
ErrorVisible == ~IsLoading /\ queryError

\* variant of the effect that lacks the length test
EffectFetched_NoGuard(local, fetched) == fetched

\* variant of the effect that merges the fetched list into the store
EffectFetched_Append(local, fetched) ==
    IF Len(fetched) > 0 THEN local \o fetched ELSE local

\* useEffect(() => { if (fetchedTasks.length > 0) setLocalTasks(fetchedTasks) })
EffectFetched(local, fetched) == IF Len(fetched) > 0 THEN fetched ELSE local

\* A fetch of the query is started (mount, invalidateQueries).
\* A fetch already in flight is cancelled and replaced.
StartedFetch == [phase |-> "req", result |-> <<>>, since |-> Len(log)]

IdleFetch == [phase |-> "idle", result |-> <<>>, since |-> 0]

----------------------------------------------------------------------------
(* History *)

LogEntry(kind, id, to) ==
    [kind |-> kind, id |-> id, to |-> to,
     overlap |-> \E m \in mutations : m.task.id = id,
     outcome |-> "pending"]

Request(kind, task, prev) ==
    [n |-> Len(log) + 1, kind |-> kind, task |-> task, prev |-> prev,
     phase |-> "req", http |-> 0, json |-> FALSE]

\* m is the latest user action on its task
LatestIntent(m) == \A k \in 1..Len(log) : log[k].id = m.task.id => k <= m.n

----------------------------------------------------------------------------
(* Initial state: the component has mounted and the first fetch is out *)

Init ==
    /\ localTasks = <<>>
    /\ hasData = FALSE
    /\ queryData = <<>>
    /\ queryError = FALSE
    /\ mutations = {}
    /\ server \in InitialServers
    /\ nextId = FirstNewId
    /\ nOps = 0
    /\ log = <<>>
    /\ fetch = StartedFetch
    /\ lastEvent = NoEvent

----------------------------------------------------------------------------
(* User actions (App.tsx:81-130); available only while the board is shown *)

\* variant of the guard that validates the title only
AddTaskRejects_TitleOnly(title, description) == Blank(title)

\* App.tsx:107
AddTaskRejects(title, description) == Blank(title) \/ Blank(description)

AddTask(title, description, columnId) ==
    /\ BoardShown
    /\ nOps < MaxOps
    /\ nOps' = nOps + 1
    /\ lastEvent' = Event("addTask", 0, title, description, "-")
    /\ IF AddTaskRejects(title, description)
       THEN UNCHANGED <<localTasks, mutations, nextId, log>>
       ELSE LET newTask == Task(nextId, title, description, columnId)
            IN  /\ nextId \in AllIds
                /\ nextId' = nextId + 1
                /\ localTasks' = Append(localTasks, newTask)
                /\ mutations' = mutations \cup {Request("add", newTask, newTask)}
                /\ log' = Append(log, LogEntry("add", nextId, columnId))
    /\ UNCHANGED <<hasData, queryData, queryError, fetch, server>>

\* variant of the early returns that lacks the `over` test
DragIgnored_NoOverCheck(tasks, activeId, over) == activeId \notin Ids(tasks)

\* App.tsx:84 and 91: the early returns of handleDragEnd
DragIgnored(tasks, activeId, over) == over = "null" \/ activeId \notin Ids(tasks)

HandleDragEnd(activeId, over) ==
    /\ BoardShown
    /\ nOps < MaxOps
    /\ nOps' = nOps + 1
    /\ lastEvent' = Event("handleDragEnd", activeId, <<>>, <<>>, over)
    /\ IF DragIgnored(localTasks, activeId, over)
       THEN UNCHANGED <<localTasks, mutations, log>>
       ELSE LET task == Find(localTasks, activeId)
                updatedTask == [task EXCEPT !.status = over]
            IN  /\ localTasks' = MapReplace(localTasks, activeId, updatedTask)
                /\ mutations' = mutations \cup {Request("update", updatedTask, task)}
                /\ log' = Append(log, LogEntry("update", activeId, over))
    /\ UNCHANGED <<hasData, queryData, queryError, fetch, server, nextId>>

\* the trash button of a rendered card: task is a record of localTasks
DeleteTask(task) ==
    /\ BoardShown
    /\ \E i \in 1..Len(localTasks) : localTasks[i] = task
    /\ nOps < MaxOps
    /\ lastEvent' = Event("deleteTask", task.id, <<>>, <<>>, "-")
    /\ localTasks' = FilterOut(localTasks, task.id)
    /\ mutations' = mutations \cup {Request("delete", [id |-> task.id], task)}
    /\ nOps' = nOps + 1
    /\ log' = Append(log, LogEntry("delete", task.id, "-"))
    /\ UNCHANGED <<hasData, queryData, queryError, fetch, server, nextId>>

----------------------------------------------------------------------------
(* The persistence service (REST surface of the backend) *)

ServerAdd(tasks, task) == Append(tasks, task)

ServerUpdate(tasks, id, status) ==
    [i \in 1..Len(tasks) |->
        IF tasks[i].id = id THEN [tasks[i] EXCEPT !.status = status] ELSE tasks[i]]

ServerDelete(tasks, id) == FilterOut(tasks, id)

\* the request of m reaches the service, which answers it
ServerHandle(m) ==
    /\ m \in mutations
    /\ m.phase = "req"
    /\ \E found \in {m.kind = "add" \/ m.task.id \in Ids(server)} :
       \E json \in (IF found THEN {TRUE} ELSE BOOLEAN) :
          /\ server' = CASE ~found -> server
                         [] m.kind = "add" -> ServerAdd(server, m.task)
                         [] m.kind = "update" ->
                                ServerUpdate(server, m.task.id, m.task.status)
                         [] OTHER -> ServerDelete(server, m.task.id)
          /\ mutations' = (mutations \ {m}) \cup
                 {[m EXCEPT !.phase = "resp",
                            !.http = IF found THEN 200 ELSE 404,
                            !.json = json]}
    /\ lastEvent' = NetEvent("serverHandle")
    /\ UNCHANGED <<localTasks, hasData, queryData, queryError, fetch,
                   nextId, nOps, log>>

\* GET /gettasks reaches the service: the response carries its list
ServerList ==
    /\ fetch.phase = "req"
    /\ fetch' = [fetch EXCEPT !.phase = "resp", !.result = server]
    /\ lastEvent' = NetEvent("serverList")
    /\ UNCHANGED <<localTasks, hasData, queryData, queryError, mutations,
                   server, nextId, nOps, log>>

----------------------------------------------------------------------------
(* Mutation callbacks (App.tsx:39-78) *)

\* mutationFn resolves: fetch resolved and, for add and update, res.json()
\* parsed the body; the HTTP status is not looked at
MutationResolves(m) == m.phase = "resp" /\ (m.kind = "delete" \/ m.json)

\* onSuccess: queryClient.invalidateQueries({ queryKey: ['tasks'] })
MutationSuccess(m) ==
    /\ m \in mutations
    /\ MutationResolves(m)
    /\ mutations' = mutations \ {m}
    /\ fetch' = StartedFetch
    /\ queryError' = IF hasData THEN queryError ELSE FALSE
    /\ log' = [log EXCEPT ![m.n].outcome = "success"]
    /\ lastEvent' = NetEvent("mutationSuccess")
    /\ UNCHANGED <<localTasks, hasData, queryData, server, nextId, nOps>>

\* mutationFn rejects (fetch rejected at any point, or the body did not
\* parse): no onError is registered, the mutation just ends
MutationError(m) ==
    /\ m \in mutations
    /\ mutations' = mutations \ {m}
    /\ log' = [log EXCEPT ![m.n].outcome = "error"]
    /\ lastEvent' = NetEvent("mutationError")
    /\ UNCHANGED <<localTasks, hasData, queryData, queryError, fetch,
                   server, nextId, nOps>>

----------------------------------------------------------------------------
(* Query callbacks (App.tsx:23-36) *)

\* queryFn resolves; fetchedTasks changes unless the new data equals the
\* old (structural sharing keeps the reference), and the effect then runs
FetchSuccess ==
    /\ fetch.phase = "resp"
    /\ localTasks' = IF ~hasData \/ fetch.result # queryData
                     THEN EffectFetched(localTasks, fetch.result)
                     ELSE localTasks
    /\ hasData' = TRUE
    /\ queryData' = fetch.result
    /\ queryError' = FALSE
    /\ fetch' = IdleFetch
    /\ lastEvent' = NetEvent("fetchSuccess")
    /\ UNCHANGED <<mutations, server, nextId, nOps, log>>

\* queryFn rejects: error is set, data (if any) is kept
FetchError ==
    /\ fetch.phase \in {"req", "resp"}
    /\ queryError' = TRUE
    /\ fetch' = IdleFetch
    /\ lastEvent' = NetEvent("fetchError")
    /\ UNCHANGED <<localTasks, hasData, queryData, mutations, server,
                   nextId, nOps, log>>

----------------------------------------------------------------------------

Next ==
    \/ \E title \in Strings, description \in Strings, columnId \in ColumnIds :
          AddTask(title, description, columnId)
    \/ \E activeId \in AllIds, over \in DropTargets :
          HandleDragEnd(activeId, over)
    \/ \E i \in 1..Len(localTasks) : DeleteTask(localTasks[i])
    \/ \E m \in mutations : ServerHandle(m)
    \/ \E m \in mutations : MutationSuccess(m)
    \/ \E m \in mutations : MutationError(m)
    \/ ServerList
    \/ FetchSuccess
    \/ FetchError

Spec == Init /\ [][Next]_vars

----------------------------------------------------------------------------
(* The draft App appended to components/TaskCard.tsx (lines 42-237): the   *)
(* same store (there called tasks), query and add/update mutations, but    *)
(* the callbacks write the confirmed record into the cache and the store   *)
(* instead of invalidating the query.  Its deleteTaskMutation has no       *)
(* caller: Column.tsx does not read the deleteTaskMutation prop.           *)

\* TaskCard.tsx:179-190
DraftAddTask(title, description, columnId) ==
    /\ BoardShown
    /\ nOps < MaxOps
    /\ nOps' = nOps + 1
    /\ lastEvent' = Event("addTask", 0, title, description, "-")
    /\ IF Blank(title) \/ Blank(description)
       THEN UNCHANGED <<localTasks, mutations, nextId, log>>
       ELSE LET newTask == Task(nextId, title, description, columnId)
            IN  /\ nextId \in AllIds
                /\ nextId' = nextId + 1
                /\ localTasks' = Append(localTasks, newTask)
                /\ mutations' = mutations \cup {Request("add", newTask, newTask)}
                /\ log' = Append(log, LogEntry("add", nextId, columnId))
    /\ UNCHANGED <<hasData, queryData, queryError, fetch, server>>

\* TaskCard.tsx:163 and 169: the early returns of the draft handleDragEnd
DraftDragIgnored(tasks, activeId, over) ==
    \/ over = "null"
    \/ activeId \notin Ids(tasks)
    \/ StatusOf(tasks, activeId) = over

DraftHandleDragEnd(activeId, over) ==
    /\ BoardShown
    /\ nOps < MaxOps
    /\ nOps' = nOps + 1
    /\ lastEvent' = Event("handleDragEnd", activeId, <<>>, <<>>, over)
    /\ IF DraftDragIgnored(localTasks, activeId, over)
       THEN UNCHANGED <<localTasks, mutations, log>>
       ELSE LET task == Find(localTasks, activeId)
                updatedTask == [task EXCEPT !.status = over]
            IN  /\ localTasks' = MapReplace(localTasks, activeId, updatedTask)
                /\ mutations' = mutations \cup {Request("update", updatedTask, task)}
                /\ log' = Append(log, LogEntry("update", activeId, over))
    /\ UNCHANGED <<hasData, queryData, queryError, fetch, server, nextId>>

\* onSuccess of the draft mutations (TaskCard.tsx:85-88 and 101-106): the
\* parsed response body goes into the query cache and into tasks.  A 2xx
\* body is the confirmed task; an error body has no id and matches no record.
DraftOnSuccess(tasks, m) ==
    CASE m.kind = "add" -> Append(tasks, m.task)
      [] m.kind = "update" /\ m.http = 200 -> MapReplace(tasks, m.task.id, m.task)
      [] OTHER -> tasks

DraftMutationSuccess(m) ==
    /\ m \in mutations
    /\ MutationResolves(m)
    /\ mutations' = mutations \ {m}
    /\ queryData' = DraftOnSuccess(FetchedTasks, m)
    /\ hasData' = TRUE
    /\ queryError' = FALSE
    /\ localTasks' = DraftOnSuccess(localTasks, m)
    /\ log' = [log EXCEPT ![m.n].outcome = "success"]
    /\ lastEvent' = NetEvent("mutationSuccess")
    /\ UNCHANGED <<fetch, server, nextId, nOps>>

\* onSuccess of the draft query (TaskCard.tsx:70-72): setTasks(fetchedTasks)
DraftFetchSuccess ==
    /\ fetch.phase = "resp"
    /\ localTasks' = fetch.result
    /\ hasData' = TRUE
    /\ queryData' = fetch.result
    /\ queryError' = FALSE
    /\ fetch' = IdleFetch
    /\ lastEvent' = NetEvent("fetchSuccess")
    /\ UNCHANGED <<mutations, server, nextId, nOps, log>>

NextDraft ==
    \/ \E title \in Strings, description \in Strings, columnId \in ColumnIds :
          DraftAddTask(title, description, columnId)
    \/ \E activeId \in AllIds, over \in DropTargets :
          DraftHandleDragEnd(activeId, over)
    \/ \E m \in mutations : ServerHandle(m)
    \/ \E m \in mutations : DraftMutationSuccess(m)
    \/ \E m \in mutations : MutationError(m)
    \/ ServerList
    \/ DraftFetchSuccess
    \/ FetchError

SpecDraft == Init /\ [][NextDraft]_vars

----------------------------------------------------------------------------
(* State predicates used by the properties *)

\* nothing is in flight: no mutation request, no fetch of the task list
Settled == mutations = {} /\ fetch.phase = "idle"

\* the (id, status) pairs of a task list
View(tasks) == {<<tasks[i].id, tasks[i].status>> : i \in 1..Len(tasks)}

TypeOK ==
    /\ nOps \in 0..MaxOps
    /\ Len(log) <= nOps
    /\ fetch.phase \in {"idle", "req", "resp"}
    /\ hasData \in BOOLEAN /\ queryError \in BOOLEAN

\* the step is the handling of a user action
UserStep == nOps' = nOps + 1

\* the store shows what mutation request m asked for
Reflects(tasks, m) ==
    CASE m.kind = "add" -> StatusOf(tasks, m.task.id) = m.task.status
      [] m.kind = "update" -> StatusOf(tasks, m.task.id) = m.task.status
      [] OTHER -> m.task.id \notin Ids(tasks)

----------------------------------------------------------------------------
(* Properties *)

\* C1: once no mutation request and no refetch is in flight (and the board
\* is on screen), localTasks holds exactly the tasks, by id and status, that
\* the persistence service lists.
C1_ConvergesToServer ==
    (Settled /\ BoardShown) => View(localTasks) = View(server)

\* C2: when the PATCH of a drag from A to B fails, and the task was not
\* dragged or otherwise acted on again, the store ends with the task back
\* in A.
C2_FailedDragReverts ==
    [][\A m \in mutations :
          (/\ m.kind = "update"
           /\ MutationError(m)
           /\ LatestIntent(m)
           /\ Settled'
           /\ m.task.id \in Ids(localTasks'))
          => StatusOf(localTasks', m.task.id) = m.prev.status]_vars

\* C3: whenever a mutation's remote call fails, the application shows an
\* error for it.
C3_FailureSurfaced ==
    [][(\E m \in mutations : MutationError(m)) => ErrorVisible']_vars

\* C4: a task moved twice, the second move made while the first PATCH was
\* still in flight, ends in the column of the second move once both have
\* succeeded and everything has settled, whatever the order of processing.
C4_LastMoveWins ==
    \A id \in AllIds :
       (/\ Len(log) = 2
        /\ log[1].kind = "update" /\ log[1].id = id
        /\ log[2].kind = "update" /\ log[2].id = id
        /\ log[2].overlap
        /\ log[1].outcome = "success" /\ log[2].outcome = "success"
        /\ Settled /\ BoardShown)
       => StatusOf(localTasks, id) = log[2].to

\* C5: a task created and then deleted while its POST was still in flight
\* is not in the store once both requests have succeeded and everything has
\* settled, whatever the order of processing.
C5_CreateThenDeleteLeavesNothing ==
    \A id \in AllIds :
       (/\ Len(log) = 2
        /\ log[1].kind = "add" /\ log[1].id = id
        /\ log[2].kind = "delete" /\ log[2].id = id
        /\ log[2].overlap
        /\ log[1].outcome = "success" /\ log[2].outcome = "success"
        /\ Settled /\ BoardShown)
       => id \notin Ids(localTasks)

\* C6: the result of a refetch that was started before mutation M was
\* applied to the store, and computed before the service saw M, does not
\* undo M in the store when it is delivered.
C6_StaleRefetchKeepsOptimistic ==
    [][FetchSuccess =>
         \A m \in mutations :
            (/\ m.n > fetch.since
             /\ m.phase = "req"
             /\ LatestIntent(m)
             /\ Reflects(localTasks, m))
            => Reflects(localTasks', m)]_vars

\* C7: a drag that ends on the column the task is already in issues no
\* request and leaves the store unchanged.
C7_SameColumnDragIsNoOp ==
    [][UserStep =>
         \A id \in AllIds, col \in ColumnIds :
            (StatusOf(localTasks, id) = col /\ HandleDragEnd(id, col))
            => (mutations' = mutations /\ localTasks' = localTasks)]_vars

\* C8: addTask with a title or description that is empty or only
\* whitespace issues no POST and leaves the store unchanged.
C8_BlankInputRejected ==
    [][UserStep =>
         \A title \in Strings, description \in Strings, columnId \in ColumnIds :
            ((Blank(title) \/ Blank(description))
               /\ AddTask(title, description, columnId))
            => (mutations' = mutations /\ localTasks' = localTasks)]_vars

C8_Witness ==
    /\ lastEvent.op = "addTask"
    /\ lastEvent.title = <<" ", "a">>
    /\ lastEvent.description = <<" ">>
    /\ localTasks # <<>>

\* C9: while the request of a user action is in flight (and the task has
\* not been acted on again), the store shows the action's result.
C9_OptimisticWhileInFlight ==
    \A m \in mutations : LatestIntent(m) => Reflects(localTasks, m)

\* C10: localTasks never holds two records with the same id.
C10_UniqueIds == Cardinality(Ids(localTasks)) = Len(localTasks)

C10_Witness ==
    /\ lastEvent.op = "fetchSuccess"
    /\ Len(localTasks) >= 2
    /\ \E k \in 1..Len(log) : log[k].kind = "add"

\* C11: every task in the store has one of the three column ids as its
\* status, so the column filter of the render puts it in exactly one column.
C11_StatusIsColumn ==
    \A i \in 1..Len(localTasks) :
       Cardinality({c \in ColumnIds : localTasks[i].status = c}) = 1

C11_Witness ==
    /\ Len(log) = 2
    /\ log[1].kind = "add"
    /\ log[2].kind = "update"
    /\ log[2].to # log[1].to
    /\ StatusOf(localTasks, log[2].id) = log[2].to

\* C12: while the task-list query is loading or in error the board is not
\* on screen, so no add, drag or delete is handled in such a state; after a
\* failed initial load the error message is what is shown.
C12_NoActionWithoutBoard ==
    [][(IsLoading \/ queryError) =>
          (/\ nOps' = nOps
           /\ lastEvent'.op \notin {"addTask", "handleDragEnd", "deleteTask"}
           /\ (~hasData /\ queryError => ErrorVisible))]_vars

C12_Witness ==
    /\ lastEvent.op = "fetchError"
    /\ ~hasData
    /\ ErrorVisible
    /\ ~BoardShown

\* C13: a mutation whose response is not 2xx is a failed mutation: its
\* onSuccess does not run and no query invalidation follows.
C13_Non2xxIsFailure ==
    [][\A m \in mutations :
          (m.phase = "resp" /\ m.http # 200) => ~MutationSuccess(m)]_vars

\* C14: an accepted drag changes only the status of the dragged task: its
\* other fields, every other record and the length of the store stay as
\* they were, and the PATCH issued carries the task's id and the new status.
C14_DragChangesOnlyStatus ==
    [][UserStep =>
       \A id \in AllIds, col \in ColumnIds :
          (id \in Ids(localTasks) /\ HandleDragEnd(id, col))
          => /\ Len(localTasks') = Len(localTasks)
             /\ \A i \in 1..Len(localTasks) :
                   localTasks'[i] =
                      IF localTasks[i].id = id
                      THEN [localTasks[i] EXCEPT !.status = col]
                      ELSE localTasks[i]
             /\ \E m \in mutations' \ mutations :
                   /\ m.kind = "update"
                   /\ m.task.id = id
                   /\ m.task.status = col
                   /\ mutations' = mutations \cup {m}]_vars

C14_Witness ==
    /\ lastEvent.op = "handleDragEnd"
    /\ Len(localTasks) >= 2
    /\ Len(log) = 2
    /\ log[2].kind = "update"
    /\ log[2].id = lastEvent.id
    /\ StatusOf(localTasks, lastEvent.id) = lastEvent.column
    /\ \E i \in 1..Len(localTasks) :
          localTasks[i].id # lastEvent.id /\ localTasks[i].status # lastEvent.column

\* C15: a drag-end with no drop target, or for an id that is not in the
\* store, leaves the store unchanged and issues no request.
C15_IgnoredDragIsNoOp ==
    [][UserStep =>
         \A id \in AllIds, over \in DropTargets :
            ((over = "null" \/ id \notin Ids(localTasks))
               /\ HandleDragEnd(id, over))
            => (mutations' = mutations /\ localTasks' = localTasks)]_vars

C15_Witness ==
    /\ lastEvent.op = "handleDragEnd"
    /\ lastEvent.column \in ColumnIds
    /\ lastEvent.id \notin Ids(localTasks)
    /\ \E k \in 1..Len(log) : log[k].kind = "delete" /\ log[k].id = lastEvent.id

\* C16 (as claimed): delivering a fetch result sets localTasks to the
\* result when it is not empty and leaves localTasks alone when it is empty.
C16_FetchResultApplied ==
    [][FetchSuccess =>
          localTasks' = IF Len(fetch.result) > 0 THEN fetch.result
                        ELSE localTasks]_vars

\* C16 (amended): a non-empty result that changes fetchedTasks (first data,
\* or different from the data the query held) replaces localTasks wholesale;
\* an empty result leaves localTasks unchanged.
C16_ChangedFetchResultApplied ==
    [][FetchSuccess =>
          /\ (Len(fetch.result) > 0 /\ (~hasData \/ fetch.result # queryData))
                => localTasks' = fetch.result
          /\ Len(fetch.result) = 0 => localTasks' = localTasks]_vars

C16_Witness ==
    /\ lastEvent.op = "fetchSuccess"
    /\ Len(log) = 2
    /\ log[1].kind = "delete" /\ log[1].outcome = "success"
    /\ log[2].kind = "add"
    /\ queryData = <<>>
    /\ localTasks # <<>>

\* C17: in the draft App, once the confirmation of a create has been
\* processed, tasks holds exactly one record with the new task's id.
C17_DraftOneRecordAfterCreate ==
    [][\A m \in mutations :
          (m.kind = "add" /\ DraftMutationSuccess(m))
          => Cardinality({i \in 1..Len(localTasks') :
                             localTasks'[i].id = m.task.id}) = 1]_vars

====
